---- MODULE Spec2Model ----
(***************************************************************************)
(* Model of the API Gateway Lambda authorizer                              *)
(* (old_lambdas/lambdas/API-Authorizer/lambda_function.py).                *)
(*                                                                         *)
(* Python strings whose characters matter (methodArn, the route patterns,  *)
(* the configuration values, the cookie keys) are sequences of            *)
(* one-character strings.  Session tokens and user ids are atoms.          *)
(***************************************************************************)
EXTENDS Integers, Sequences, FiniteSets, TLC

VARIABLES
    environ,         \* os.environ: the five configuration keys
    ALLOWED_ROUTES,  \* module-level list computed at import
    table,           \* the Sessions table (external store), token -> item
    storeUp,         \* whether table.get_item answers or raises
    now,             \* int(time.time())
    pc,              \* position of the invocation in flight
    event,           \* the event of the invocation in flight
    session_id,      \* the token extracted from the cookie header
    result,          \* what lambda_handler returned or raised
    reads,           \* table.get_item calls made by this invocation
    path,            \* protocol states this invocation went through
    firstAllow       \* per session token: the first Allow decision returned,
                     \* its resource, and whether that call was repeated

vars == <<environ, ALLOWED_ROUTES, table, storeUp, now, pc, event,
          session_id, result, reads, path, firstAllow>>

(***************************************************************************)
(* Bounds                                                                  *)
(***************************************************************************)
MaxNow == 2
MaxExp == 1

(***************************************************************************)
(* Python values                                                           *)
(***************************************************************************)
\* None, as a value of a string-typed slot (distinct from every string)
None == <<"None">>

\* str(None) inside an f-string
NoneText == <<"N", "o", "n", "e">>

\* f"{x}"
Format(x) == IF x = None THEN NoneText ELSE x

\* truthiness of a str-or-None value
Truthy(x) == x # None /\ x # <<>>

PyStr(s) == [t |-> "str", v |-> s]
PyList(l) == [t |-> "list", v |-> l]

\* `for resource in resources`: a str yields its characters, a list its items
Iterate(resources) ==
    IF resources.t = "str"
    THEN [i \in 1..Len(resources.v) |-> <<resources.v[i]>>]
    ELSE resources.v

Raise(e) == [kind |-> "raise", exc |-> e]

(***************************************************************************)
(* get_allowed_routes                                                      *)
(***************************************************************************)
EnvKeys == {"AWS_ACCOUNT_ID", "CDK_AWS_REGION", "AWS_REGION", "STAGE",
            "API_GATEWAY_ID"}

\* os.environ.get(key, default); an unset key holds None in the model
EnvGet(env, key, default) == IF env[key] = None THEN default ELSE env[key]

ArnPrefix == <<"a", "r", "n", ":", "a", "w", "s", ":", "e", "x", "e", "c",
               "u", "t", "e", "-", "a", "p", "i", ":">>

DefaultStage == <<"d", "e", "v">>

get_allowed_routes_empty(env) ==
    LET account_id == EnvGet(env, "AWS_ACCOUNT_ID", None)
        region == EnvGet(env, "CDK_AWS_REGION", EnvGet(env, "AWS_REGION", None))
        stage == EnvGet(env, "STAGE", DefaultStage)
        api_id == EnvGet(env, "API_GATEWAY_ID", None)
    IN  IF Truthy(api_id)
        THEN << ArnPrefix \o Format(region) \o <<":">> \o Format(account_id)
                \o <<":">> \o Format(api_id) \o <<"/">> \o Format(stage)
                \o <<"/", "*">> >>
        ELSE << >>

get_allowed_routes(env) ==
    LET account_id == EnvGet(env, "AWS_ACCOUNT_ID", None)
        region == EnvGet(env, "CDK_AWS_REGION", EnvGet(env, "AWS_REGION", None))
        stage == EnvGet(env, "STAGE", DefaultStage)
        api_id == EnvGet(env, "API_GATEWAY_ID", None)
    IN  IF Truthy(api_id)
        THEN << ArnPrefix \o Format(region) \o <<":">> \o Format(account_id)
                \o <<":">> \o Format(api_id) \o <<"/">> \o Format(stage)
                \o <<"/", "*">> >>
        ELSE << ArnPrefix \o Format(region) \o <<":">> \o Format(account_id)
                \o <<":", "*", "/">> \o Format(stage) \o <<"/", "*">> >>

(***************************************************************************)
(* generate_policy                                                         *)
(***************************************************************************)
NoContext == [user_id |-> "", set |-> FALSE]
UserContext(u) == [user_id |-> u, set |-> TRUE]

generate_policy(principal_id, effect, resources, context) ==
    LET it == Iterate(resources)
        statements == [i \in 1..Len(it) |->
                          [Action |-> "execute-api:Invoke",
                           Effect |-> effect,
                           Resource |-> it[i]]]
    IN  [kind |-> "policy",
         principalId |-> principal_id,
         Version |-> "2012-10-17",
         Statement |-> statements,
         context |-> IF context.set THEN context ELSE NoContext]

(***************************************************************************)
(* validate_session                                                        *)
(***************************************************************************)
NoItem == [present |-> FALSE, has_user |-> FALSE, user_id |-> "",
           exp |-> "missing", expiration |-> 0]

Item(u, e) == [present |-> TRUE, has_user |-> TRUE, user_id |-> u,
               exp |-> "int", expiration |-> e]

NoData == [some |-> FALSE, user_id |-> ""]
SessionData(u) == [some |-> TRUE, user_id |-> u]

\* returns the session data (or None) and the number of get_item calls made
validate_session(sid, tbl, up, t) ==
    IF ~up
    THEN [data |-> NoData, calls |-> 1]            \* get_item raised: except
    ELSE LET item == tbl[sid] IN
         IF ~item.present THEN [data |-> NoData, calls |-> 1]
         ELSE IF item.exp # "int" THEN [data |-> NoData, calls |-> 1]
                                   \* KeyError / ValueError: except
         ELSE IF item.expiration < t THEN [data |-> NoData, calls |-> 1]
         ELSE IF ~item.has_user THEN [data |-> NoData, calls |-> 1]
                                   \* KeyError: except
         ELSE [data |-> SessionData(item.user_id), calls |-> 1]


(***************************************************************************)
(* Events and the cookie header                                            *)
(***************************************************************************)
Tokens == {"s1", "s2"}

\* The Cookie header text is the sequence of segments SimpleCookie's
\* pattern cuts it into: `key=value`, a key without a value, or text the
\* pattern does not match ('[bad]'), at which parsing stops.  A key is the
\* string of its characters; a value is the decoded token.
Pair(k, v) == [form |-> "kv", key |-> k, value |-> v]
Bare(k) == [form |-> "bare", key |-> k, value |-> ""]
NoMatch == [form |-> "stop", key |-> << >>, value |-> ""]

\* 'session_id'
SessionKey == <<"s", "e", "s", "s", "i", "o", "n", "_", "i", "d">>

\* Morsel._reserved and Morsel._flags
Reserved ==
    { <<"e", "x", "p", "i", "r", "e", "s">>,
      <<"p", "a", "t", "h">>,
      <<"c", "o", "m", "m", "e", "n", "t">>,
      <<"d", "o", "m", "a", "i", "n">>,
      <<"m", "a", "x", "-", "a", "g", "e">>,
      <<"s", "e", "c", "u", "r", "e">>,
      <<"h", "t", "t", "p", "o", "n", "l", "y">>,
      <<"v", "e", "r", "s", "i", "o", "n">>,
      <<"s", "a", "m", "e", "s", "i", "t", "e">> }

Flags == { <<"s", "e", "c", "u", "r", "e">>,
           <<"h", "t", "t", "p", "o", "n", "l", "y">> }

\* the grave accent (U+0060), which a TLA+ string cannot hold
Backtick == "grave"

\* http.cookies._LegalChars
LegalChars ==
    {
      "a", "b", "c", "d", "e", "f", "g", "h", "i", "j", "k", "l", "m", "n",
      "o", "p", "q", "r", "s", "t", "u", "v", "w", "x", "y", "z", "A", "B",
      "C", "D", "E", "F", "G", "H", "I", "J", "K", "L", "M", "N", "O", "P",
      "Q", "R", "S", "T", "U", "V", "W", "X", "Y", "Z", "0", "1", "2", "3",
      "4", "5", "6", "7", "8", "9", "!", "#", "$", "%", "&", "'", "*", "+",
      "-", ".", "^", "_", Backtick, "|", "~", ":" }

\* str.lower() on one character and on a key (keys are ASCII)
LowerChar(c) ==
    CASE c = "A" -> "a"
      [] c = "B" -> "b"
      [] c = "C" -> "c"
      [] c = "D" -> "d"
      [] c = "E" -> "e"
      [] c = "F" -> "f"
      [] c = "G" -> "g"
      [] c = "H" -> "h"
      [] c = "I" -> "i"
      [] c = "J" -> "j"
      [] c = "K" -> "k"
      [] c = "L" -> "l"
      [] c = "M" -> "m"
      [] c = "N" -> "n"
      [] c = "O" -> "o"
      [] c = "P" -> "p"
      [] c = "Q" -> "q"
      [] c = "R" -> "r"
      [] c = "S" -> "s"
      [] c = "T" -> "t"
      [] c = "U" -> "u"
      [] c = "V" -> "v"
      [] c = "W" -> "w"
      [] c = "X" -> "x"
      [] c = "Y" -> "y"
      [] c = "Z" -> "z"
      [] OTHER -> c

Lower(k) == [i \in 1..Len(k) |-> LowerChar(k[i])]

\* _is_legal_key(key)
IsLegalKey(k) == Len(k) > 0 /\ \A i \in 1..Len(k) : k[i] \in LegalChars

\* the empty sequence is the empty header text ''
CookieTexts ==
    { << >>,
      << Pair(SessionKey, "s1") >>,
      << Pair(SessionKey, "s2") >>,
      << Pair(<<"f", "o", "o">>, "s1") >>,
      << Pair(<<"S", "e", "s", "s", "i", "o", "n", "_", "I", "D">>, "s1") >>,
      << Pair(<<"f", "o", "o">>, "s2"), Pair(SessionKey, "s1") >>,
      << Pair(SessionKey, "s2"), Pair(SessionKey, "s1") >>,
      << Pair(SessionKey, "s1"), Bare(<<"b", "a", "d">>) >>,
      << Pair(SessionKey, "s1"), NoMatch >>,
      << Pair(SessionKey, "s1"), NoMatch, Pair(SessionKey, "s2") >>,
      << Pair(<<"P", "a", "t", "h">>, "s2"), Pair(SessionKey, "s1") >>,
      << Pair(SessionKey, "s1"), Bare(<<"S", "e", "c", "u", "r", "e">>) >>,
      << Pair(SessionKey, "s1"), Pair(<<"$", "x">>, "s2") >>,
      << Pair(SessionKey, "s1"), Pair(<<"a", ",", "b">>, "s2") >> }

\* the headers mapping, restricted to the two keys the handler reads
EmptyMap == [k \in {} |-> << >>]

HeaderMaps ==
    { EmptyMap }
    \cup { [k \in {"Cookie"} |-> c] : c \in CookieTexts }
    \cup { [k \in {"cookie"} |-> << Pair(SessionKey, "s1") >>] }
    \cup { [k \in {"Cookie", "cookie"} |->
              IF k = "Cookie" THEN << >> ELSE << Pair(SessionKey, "s1") >>],
           [k \in {"Cookie", "cookie"} |->
              IF k = "Cookie" THEN << Pair(SessionKey, "s2") >>
                              ELSE << Pair(SessionKey, "s1") >>] }

MethodArns == { << >>, <<"a", "/", "b">> }

\* hkind: "absent" (no 'headers' key), "null" (None), "notmap" (a value
\* without .get), "map";  hasArn: whether the event has a 'methodArn' key
Events ==
    { [hkind |-> k, headers |-> EmptyMap, hasArn |-> TRUE, methodArn |-> a] :
          k \in {"absent", "null", "notmap"}, a \in MethodArns }
    \cup
    { [hkind |-> "map", headers |-> m, hasArn |-> TRUE, methodArn |-> a] :
          m \in HeaderMaps, a \in MethodArns }
    \cup
    { [hkind |-> k, headers |-> EmptyMap, hasArn |-> FALSE, methodArn |-> << >>] :
          k \in {"absent", "null", "notmap"} }
    \cup
    { [hkind |-> "map", headers |-> m, hasArn |-> FALSE, methodArn |-> << >>] :
          m \in HeaderMaps }

NoEvent == [hkind |-> "absent", headers |-> EmptyMap, hasArn |-> FALSE,
            methodArn |-> << >>]

\* headers.get(key, '')
HeaderGet(h, key) == IF key \in DOMAIN h THEN h[key] ELSE << >>

\* BaseCookie.__parse_string, first loop: the items parsed from segment i on,
\* or the verdict that the cookie string is invalid
RECURSIVE ParseItems(_, _, _, _)
ParseItems(text, i, items, morsel_seen) ==
    IF i > Len(text) THEN [valid |-> TRUE, items |-> items]
    ELSE LET seg == text[i] IN
         IF seg.form = "stop" THEN [valid |-> TRUE, items |-> items]
         ELSE IF seg.key[1] = "$"
         THEN IF ~morsel_seen
              THEN ParseItems(text, i + 1, items, morsel_seen)
              ELSE ParseItems(text, i + 1,
                              Append(items, [tp |-> "attribute",
                                             key |-> Tail(seg.key),
                                             value |-> seg.value]),
                              morsel_seen)
         ELSE IF Lower(seg.key) \in Reserved
         THEN IF ~morsel_seen THEN [valid |-> FALSE, items |-> << >>]
              ELSE IF seg.form = "bare" /\ Lower(seg.key) \notin Flags
              THEN [valid |-> FALSE, items |-> << >>]
              ELSE ParseItems(text, i + 1,
                              Append(items, [tp |-> "attribute", key |-> seg.key,
                                             value |-> seg.value]),
                              morsel_seen)
         ELSE IF seg.form = "kv"
         THEN ParseItems(text, i + 1,
                         Append(items, [tp |-> "keyvalue", key |-> seg.key,
                                        value |-> seg.value]),
                         TRUE)
         ELSE [valid |-> FALSE, items |-> << >>]

\* SimpleCookie(text).get(key): an invalid string leaves the jar empty; a
\* valid one is applied item by item: Morsel.set raises CookieError for an
\* illegal key, Morsel.__setitem__ for an attribute outside Morsel._reserved,
\* and a repeated key keeps its last binding
CookieGet(text, key) ==
    LET parsed == ParseItems(text, 1, << >>, FALSE)
        items == parsed.items
        hits == { i \in 1..Len(items) :
                    items[i].tp = "keyvalue" /\ items[i].key = key }
        last == CHOOSE i \in hits : \A j \in hits : j <= i
    IN  IF \E i \in 1..Len(items) :
              \/ items[i].tp = "attribute" /\ Lower(items[i].key) \notin Reserved
              \/ items[i].tp = "keyvalue" /\ ~IsLegalKey(items[i].key)
        THEN [kind |-> "raise", exc |-> "CookieError"]
        ELSE IF hits = {}
        THEN [kind |-> "morsel", found |-> FALSE, value |-> ""]
        ELSE [kind |-> "morsel", found |-> TRUE, value |-> items[last].value]

(***************************************************************************)
(* lambda_handler                                                          *)
(***************************************************************************)
\* generate_policy('user', 'Deny', event['methodArn']); the subscript raises
\* KeyError when the event has no 'methodArn' key
deny_policy(principal, ev) ==
    IF ev.hasArn
    THEN generate_policy(principal, "Deny", PyStr(ev.methodArn), NoContext)
    ELSE Raise("KeyError")

no_cookie_deny(ev) == deny_policy("user", ev)

no_session_deny(ev) == deny_policy("user", ev)

invalid_session_deny_diag(ev) == deny_policy("expired", ev)

invalid_session_deny(ev) == deny_policy("user", ev)

fault_deny(ev) == deny_policy("user", ev)

\* the `except Exception` clause around the handler body
Absorb(ev, r) == IF r.kind = "raise" THEN fault_deny(ev) ELSE r

\* headers = event.get('headers', {}); headers.get('Cookie', '') or
\* headers.get('cookie', '')
cookie_header(ev) ==
    IF ev.hkind \in {"null", "notmap"}
    THEN Raise("AttributeError")
    ELSE LET headers == IF ev.hkind = "absent" THEN EmptyMap ELSE ev.headers
             upper == HeaderGet(headers, "Cookie")
         IN  [kind |-> "value",
              text |-> IF upper # << >> THEN upper
                       ELSE HeaderGet(headers, "cookie")]

Token(v) == [kind |-> "token", value |-> v]

\* the handler up to the call of validate_session: a decision, an escaping
\* exception, or the extracted token
extract_token(ev) ==
    LET ch == cookie_header(ev) IN
    IF ch.kind = "raise" THEN Absorb(ev, ch)
    ELSE IF ch.text = << >> THEN Absorb(ev, no_cookie_deny(ev))
    ELSE LET morsel == CookieGet(ch.text, SessionKey) IN
         IF morsel.kind = "raise" THEN Absorb(ev, morsel)
         ELSE IF ~morsel.found THEN Absorb(ev, no_session_deny(ev))
         ELSE Token(morsel.value)

allow_policy_recomputed(session_data, routes) ==
    generate_policy(session_data.user_id, "Allow",
                    PyList(get_allowed_routes(environ)),
                    UserContext(session_data.user_id))

\* generate_policy(session_data['user_id'], 'Allow', ALLOWED_ROUTES, context=...)
allow_policy(session_data, routes) ==
    generate_policy(session_data.user_id, "Allow", PyList(routes),
                    UserContext(session_data.user_id))

\* the handler after validate_session returned
decide(ev, session_data, routes) ==
    IF ~session_data.some THEN Absorb(ev, invalid_session_deny(ev))
    ELSE IF ~ev.hasArn THEN Absorb(ev, Raise("KeyError"))   \* the print
    ELSE Absorb(ev, allow_policy(session_data, routes))

\* one whole invocation against a given store state and clock
lambda_handler(ev, routes, tbl, up, t) ==
    LET x == extract_token(ev) IN
    IF x.kind = "token"
    THEN decide(ev, validate_session(x.value, tbl, up, t).data, routes)
    ELSE x


(***************************************************************************)
(* The process: configuration, store, clock and one invocation in flight   *)
(***************************************************************************)
Env(account, cdk_region, aws_region, stage, api) ==
    [k \in EnvKeys |->
        CASE k = "AWS_ACCOUNT_ID" -> account
          [] k = "CDK_AWS_REGION" -> cdk_region
          [] k = "AWS_REGION" -> aws_region
          [] k = "STAGE" -> stage
          [] k = "API_GATEWAY_ID" -> api]

\* configurations of the authorizer runs: deployed gateway id, first deployment
Environs ==
    { Env(<<"1">>, <<"r">>, None, <<"p">>, <<"g">>),
      Env(<<"1">>, None, <<"s">>, None, None) }

\* every configuration, for the allow-list builder
EnvSpace ==
    { Env(a, c, r, s, g) :
        a \in {None, <<"1">>},
        c \in {None, << >>, <<"r">>},
        r \in {None, <<"s">>},
        s \in {None, << >>, <<"p">>, <<"q", "a">>},
        g \in {None, << >>, <<"g">>, <<"h", "2">>} }

\* records of the first session: absent, well-formed with any expiration,
\* or malformed (no expiration, non-numeric expiration, no user_id)
Items1 ==
    { NoItem }
    \cup { Item("u1", e) : e \in 0..MaxExp }
    \cup { [Item("u1", 0) EXCEPT !.exp = "missing"],
           [Item("u1", 0) EXCEPT !.exp = "nan"],
           [Item("", MaxExp) EXCEPT !.has_user = FALSE] }

\* the second session is unknown or a live session of another user
Items2 == { NoItem, Item("u2", MaxExp) }

Tables == { [s \in Tokens |-> IF s = "s1" THEN i1 ELSE i2] :
              i1 \in Items1, i2 \in Items2 }

NoResult == [kind |-> "none"]

NoAllow == [seen |-> FALSE, decision |-> NoResult, arn |-> << >>,
            again |-> FALSE]

Init ==
    /\ environ \in Environs
    /\ ALLOWED_ROUTES = get_allowed_routes(environ)
    /\ table \in Tables
    /\ storeUp = TRUE
    /\ now = 0
    /\ pc = "idle"
    /\ event = NoEvent
    /\ session_id = ""
    /\ result = NoResult
    /\ reads = 0
    /\ path = << >>
    /\ firstAllow = [s \in Tokens |-> NoAllow]

\* API Gateway invokes the handler
Invoke(ev) ==
    /\ pc \in {"idle", "returned"}
    /\ pc' = "start"
    /\ event' = ev
    /\ session_id' = ""
    /\ result' = NoResult
    /\ reads' = 0
    /\ path' = <<"START">>
    /\ UNCHANGED <<environ, ALLOWED_ROUTES, table, storeUp, now, firstAllow>>

\* lambda_handler up to the store lookup
ExtractToken ==
    /\ pc = "start"
    /\ LET x == extract_token(event) IN
       IF x.kind = "token"
       THEN /\ pc' = "validating"
            /\ session_id' = x.value
            /\ path' = Append(path, "VALIDATING")
            /\ UNCHANGED result
       ELSE /\ pc' = "returned"
            /\ result' = x
            /\ path' = Append(path, IF x.kind = "raise" THEN "RAISE" ELSE "DENY")
            /\ UNCHANGED session_id
    /\ UNCHANGED <<environ, ALLOWED_ROUTES, table, storeUp, now, event, reads,
                   firstAllow>>

\* validate_session and the rest of lambda_handler
ValidateSession ==
    /\ pc = "validating"
    /\ LET v == validate_session(session_id, table, storeUp, now)
           r == decide(event, v.data, ALLOWED_ROUTES)
       IN  /\ result' = r
           /\ reads' = reads + v.calls
           /\ path' = Append(path, IF r.kind = "raise" THEN "RAISE"
                                   ELSE IF v.data.some THEN "ALLOW" ELSE "DENY")
           /\ firstAllow' =
                 IF r.kind = "policy" /\ v.data.some
                 THEN IF ~firstAllow[session_id].seen
                      THEN [firstAllow EXCEPT ![session_id] =
                              [seen |-> TRUE, decision |-> r,
                               arn |-> event.methodArn, again |-> FALSE]]
                      ELSE IF firstAllow[session_id].arn = event.methodArn
                      THEN [firstAllow EXCEPT ![session_id].again = TRUE]
                      ELSE firstAllow
                 ELSE firstAllow
    /\ pc' = "returned"
    /\ UNCHANGED <<environ, ALLOWED_ROUTES, table, storeUp, now, event,
                   session_id>>

\* time passes
Tick ==
    /\ now < MaxNow
    /\ now' = now + 1
    /\ UNCHANGED <<environ, ALLOWED_ROUTES, table, storeUp, pc, event,
                   session_id, result, reads, path, firstAllow>>

\* the store becomes unreachable, or reachable again
StoreFlip ==
    /\ storeUp' = ~storeUp
    /\ UNCHANGED <<environ, ALLOWED_ROUTES, table, now, pc, event,
                   session_id, result, reads, path, firstAllow>>

\* the configuration changes while the process runs
SetEnv(e) ==
    /\ e # environ
    /\ environ' = e
    /\ UNCHANGED <<ALLOWED_ROUTES, table, storeUp, now, pc, event,
                   session_id, result, reads, path, firstAllow>>

Next ==
    \/ \E ev \in Events : Invoke(ev)
    \/ ExtractToken
    \/ ValidateSession
    \/ Tick
    \/ StoreFlip
    \/ \E e \in Environs : SetEnv(e)

Spec == Init /\ [][Next]_vars

(***************************************************************************)
(* The allow-list builder on its own: the module is loaded, and loaded     *)
(* again by each restart, under any configuration                          *)
(***************************************************************************)
InitRoutes ==
    /\ environ \in EnvSpace
    /\ ALLOWED_ROUTES = get_allowed_routes(environ)
    /\ table = [s \in Tokens |-> NoItem]
    /\ storeUp = TRUE
    /\ now = 0
    /\ pc = "idle"
    /\ event = NoEvent
    /\ session_id = ""
    /\ result = NoResult
    /\ reads = 0
    /\ path = << >>
    /\ firstAllow = [s \in Tokens |-> NoAllow]

Restart(e) ==
    /\ environ' = e
    /\ ALLOWED_ROUTES' = get_allowed_routes(e)
    /\ UNCHANGED <<table, storeUp, now, pc, event, session_id, result, reads,
                   path, firstAllow>>

NextRoutes == \E e \in EnvSpace : Restart(e)

SpecRoutes == InitRoutes /\ [][NextRoutes]_vars


(***************************************************************************)
(* Vocabulary of the properties                                            *)
(***************************************************************************)
Last(q) == q[Len(q)]

\* the step in which the invocation in flight looks its token up and returns
Validates == pc = "validating" /\ pc' = "returned"

Returned == pc = "returned"

DeniedNow == Returned /\ result.kind = "policy" /\ Last(path) = "DENY"

AllowedNow == Returned /\ result.kind = "policy" /\ Last(path) = "ALLOW"

\* a well-formed record: user_id and a numeric expiration
WellFormed(item) == item.present /\ item.has_user /\ item.exp = "int"

\* the cookie text names the key session_id
NamesSession(text) == \E i \in 1..Len(text) : text[i].key = SessionKey

\* requests without a session token: no headers, no Cookie header, an empty
\* one, or one without the session_id key
LacksToken(ev) ==
    /\ ev.hkind \in {"absent", "map"}
    /\ \A k \in DOMAIN ev.headers : ~NamesSession(ev.headers[k])

\* Split(s, sep): the fields of s between occurrences of sep
RECURSIVE Split(_, _)
Split(s, sep) ==
    IF \A i \in 1..Len(s) : s[i] # sep THEN << s >>
    ELSE LET k == CHOOSE i \in 1..Len(s) :
                     s[i] = sep /\ \A j \in 1..(i - 1) : s[j] # sep
         IN  << SubSeq(s, 1, k - 1) >> \o Split(SubSeq(s, k + 1, Len(s)), sep)


\* the record the invocation in flight looks up
Looked == table[session_id]

\* the store answers with a record that is live at the current clock
LiveLookup == storeUp /\ WellFormed(Looked) /\ Looked.expiration > now

\* the lookup raises, or answers with a malformed record
FailedLookup == ~storeUp \/ (Looked.present /\ ~WellFormed(Looked))

\* the Allow decision the specification describes for a user
FullGrant(user, routes) ==
    [kind |-> "policy",
     principalId |-> user,
     Version |-> "2012-10-17",
     Statement |-> [i \in 1..Len(routes) |->
                      [Action |-> "execute-api:Invoke", Effect |-> "Allow",
                       Resource |-> routes[i]]],
     context |-> [user_id |-> user, set |-> TRUE]]

OnlyDenies(r) == \A i \in 1..Len(r.Statement) : r.Statement[i].Effect = "Deny"

StoreStates == Tables \X BOOLEAN \X (0..MaxNow)

\* the decision does not depend on the store: any store state and clock
\* give the request the same decision
StoreBlind(ev, r) ==
    \A st \in StoreStates :
        lambda_handler(ev, ALLOWED_ROUTES, st[1], st[2], st[3]) = r

\* the request with the same requested resource and no headers at all
HeaderLess(ev) == [hkind |-> "absent", headers |-> EmptyMap,
             hasArn |-> ev.hasArn, methodArn |-> ev.methodArn]

(***************************************************************************)
(* Claims                                                                  *)
(***************************************************************************)

\* C1: a session whose record has expiration <= now (the exact expiration
\* instant included) is reported invalid by validate_session and is never
\* answered with ALLOW.  (Stated for events that carry 'methodArn', where
\* the handler returns a decision.)
C1_ExpiryBoundary ==
    [][ (Validates /\ event.hasArn /\ storeUp /\ WellFormed(Looked)
         /\ Looked.expiration <= now)
        => /\ ~validate_session(session_id, table, storeUp, now).data.some
           /\ Last(path') # "ALLOW" ]_vars

\* C2: every DENY decision, for a non-empty requested resource, has exactly
\* one statement, with Effect Deny and Resource equal to the whole
\* requested-resource string.
C2_DenyScopedToResource ==
    (DeniedNow /\ event.methodArn # << >>)
    => /\ Len(result.Statement) = 1
       /\ result.Statement[1].Effect = "Deny"
       /\ result.Statement[1].Resource = event.methodArn

\* C3: no exception escapes lambda_handler: every invocation, whatever the
\* headers, the requested-resource field and the store, ends by returning a
\* decision.
C3_NoEscape == Returned => result.kind = "policy"

\* C4: a request without a session token is answered with a DENY decision
\* that has no Allow statement, whatever the state of the store.
C4_NoTokenDenied ==
    (Returned /\ LacksToken(event))
    => /\ result.kind = "policy"
       /\ Last(path) = "DENY"
       /\ OnlyDenies(result)
       /\ StoreBlind(event, result)

\* C5: a request whose session token has a live record (expiration > now) is
\* answered with ALLOW: principal the record's user_id, one Allow statement
\* per pattern of the cached allow-list in order, context {user_id}.
C5_ValidSessionAllowed ==
    [][ (Validates /\ LiveLookup)
        => result' = FullGrant(Looked.user_id, ALLOWED_ROUTES) ]_vars

\* C6: when the lookup raises or answers with a malformed record,
\* validate_session reports "not found" and lambda_handler returns a DENY
\* decision: nothing propagates and nothing is allowed.
C6_FailClosed ==
    [][ (Validates /\ FailedLookup)
        => /\ ~validate_session(session_id, table, storeUp, now).data.some
           /\ result'.kind = "policy"
           /\ Last(path') = "DENY"
           /\ OnlyDenies(result') ]_vars

\* C7: the allow-list has exactly one pattern; its gateway slot holds the
\* configured gateway id when there is one and the wildcard otherwise, its
\* stage slot holds the stage, and it ends with the wildcard suffix.
C7_AllowList ==
    LET api == environ["API_GATEWAY_ID"]
        stage == IF environ["STAGE"] = None THEN DefaultStage
                 ELSE environ["STAGE"]
    IN  /\ Len(ALLOWED_ROUTES) = 1
        /\ LET fields == Split(ALLOWED_ROUTES[1], ":")
               slots == Split(Last(fields), "/")
           IN  /\ Len(fields) = 6
               /\ Len(slots) = 3
               /\ slots[1] = (IF api # None /\ api # << >> THEN api ELSE <<"*">>)
               /\ slots[2] = stage
               /\ slots[3] = <<"*">>

\* C7 witness: nothing is configured; the fallback pattern has the wildcard
\* gateway and the default stage.
C7_Witness ==
    /\ \A k \in EnvKeys : environ[k] = None
    /\ ALLOWED_ROUTES =
         << ArnPrefix \o <<"N", "o", "n", "e", ":", "N", "o", "n", "e", ":",
                           "*", "/", "d", "e", "v", "/", "*">> >>

\* C8: the allow-list is never recomputed or mutated after startup, and
\* every ALLOW decision for a session equals the first one returned for it,
\* whatever happened in between, configuration changes included.
C8_Idempotent ==
    /\ [][ALLOWED_ROUTES' = ALLOWED_ROUTES]_vars
    /\ [](AllowedNow => /\ firstAllow[session_id].seen
                        /\ result = firstAllow[session_id].decision)

\* C8 witness: a session is allowed a second time for the same resource
\* after the configuration changed.
C8_Witness ==
    /\ AllowedNow
    /\ firstAllow[session_id].again
    /\ firstAllow[session_id].arn = event.methodArn
    /\ get_allowed_routes(environ) # ALLOWED_ROUTES

\* C9: a DENY decision is the same value on every deny path: it is the one
\* the request without any header gets for the same resource under any
\* store state, with principal 'user' and no context.
C9_UniformDeny ==
    DeniedNow
    => /\ result.principalId = "user"
       /\ ~result.context.set
       /\ StoreBlind(HeaderLess(event), result)

\* C9 witness: the session of user u1 was looked up and denied.
C9_Witness ==
    /\ DeniedNow
    /\ path = <<"START", "VALIDATING", "DENY">>
    /\ Looked = Item("u1", 0)
    /\ storeUp
    /\ Len(result.Statement) > 0

\* C10: an invocation goes START -> DENY without reading the store, or
\* START -> VALIDATING -> DENY | ALLOW reading it exactly once; it emits one
\* decision and never writes the store.
C10_Protocol ==
    /\ [](Returned
          => /\ path \in { <<"START", "DENY">>,
                           <<"START", "VALIDATING", "DENY">>,
                           <<"START", "VALIDATING", "ALLOW">> }
             /\ reads = (IF Len(path) = 3 THEN 1 ELSE 0)
             /\ result.kind = "policy")
    /\ [](pc = "validating" => reads = 0)
    /\ [][table' = table]_vars


(***************************************************************************)
(* The same statements for events that carry a 'methodArn' key             *)
(***************************************************************************)
NoTokenDeniedGivenArn ==
    (Returned /\ LacksToken(event) /\ event.hasArn)
    => /\ result.kind = "policy"
       /\ Last(path) = "DENY"
       /\ OnlyDenies(result)
       /\ StoreBlind(event, result)

ValidSessionAllowedGivenArn ==
    [][ (Validates /\ LiveLookup /\ event.hasArn)
        => result' = FullGrant(Looked.user_id, ALLOWED_ROUTES) ]_vars

FailClosedGivenArn ==
    [][ (Validates /\ FailedLookup /\ event.hasArn)
        => /\ ~validate_session(session_id, table, storeUp, now).data.some
           /\ result'.kind = "policy"
           /\ Last(path') = "DENY"
           /\ OnlyDenies(result') ]_vars

ProtocolGivenArn ==
    /\ []((Returned /\ event.hasArn)
          => /\ path \in { <<"START", "DENY">>,
                           <<"START", "VALIDATING", "DENY">>,
                           <<"START", "VALIDATING", "ALLOW">> }
             /\ reads = (IF Len(path) = 3 THEN 1 ELSE 0)
             /\ result.kind = "policy")
    /\ [](pc = "validating" => reads = 0)
    /\ [][table' = table]_vars

NoEscapeGivenArn == (Returned /\ event.hasArn) => result.kind = "policy"

====
